---- MODULE Spec2Model ----
(***************************************************************************)
(* Research agent (src/agent.py): a read-eval-print loop around input()    *)
(* that runs research rounds (search-term generation, four search sources, *)
(* deduplication by URL, optional LLM analysis) and stores every round in  *)
(* an in-process ResearchMemory.                                           *)
(*                                                                         *)
(* Python strings are sequences of one-character strings; Python values    *)
(* that come out of json.loads or may be None are tagged records           *)
(* [t |-> "None"], [t |-> "str", v |-> chars], [t |-> "int", v |-> n],     *)
(* [t |-> "list", v |-> seq], [t |-> "dict", v |-> record].  A call that   *)
(* may raise returns [exc |-> TRUE] or [exc |-> FALSE, val |-> value].     *)
(***************************************************************************)
EXTENDS Integers, Sequences, FiniteSets, TLC

VARIABLES
    pc,                \* position of the process
    line,              \* the raw line last returned by input()
    question,          \* main's / research_round's question (None or str)
    category,          \* research_round's category
    search_terms,      \* research_round's search_terms
    term_i,            \* position of the for-loop over search_terms
    round_results,     \* research_round's local all_results
    analysis,          \* research_round's analysis
    memory_context,    \* analyze_with_ai's memory_context
    memory,            \* the ResearchMemory object: history, all_results
    goodbye,           \* the round count printed when the loop ends
    asked,             \* number of research questions entered so far
    calls,             \* the external calls of the current round, in order
    HAS_ANTHROPIC,     \* module flag set by the import at line 11-15
    ANTHROPIC_API_KEY, \* os.environ entry
    NEWSAPI_KEY,       \* os.environ entry
    call,              \* unit level: the function applied and its arguments
    ret                \* unit level: what it returned

vars == <<pc, line, question, category, search_terms, term_i, round_results,
          analysis, memory_context, memory, goodbye, asked, calls,
          HAS_ANTHROPIC, ANTHROPIC_API_KEY, NEWSAPI_KEY, call, ret>>

\* ------------------------------------------------------------------ bounds

\* Research rounds per session in the session specification.
MaxRounds == 2
\* Research rounds per session in the specification that draws every
\* combination of external outcomes.
MaxWideRounds == 1
\* Rounds stored in a memory handed to get_context at unit level.
MaxHistory == 2

\* --------------------------------------------------------- program constants

SummaryLimit == 300
TitleLimit == 80
PreviewLimit == 200
SnippetLimit == 500
DateLimit == 10
TopicLimit == 3
ArticleLimit == 3

\* ------------------------------------------------------------ Python values

NoneV == [t |-> "None"]
Str(s) == [t |-> "str", v |-> s]
Num(n) == [t |-> "int", v |-> n]
List(s) == [t |-> "list", v |-> s]
Dict(r) == [t |-> "dict", v |-> r]

Ok(v) == [exc |-> FALSE, val |-> v]
Exc == [exc |-> TRUE]

\* bool(x)
Truthy(x) ==
    CASE x.t = "None" -> FALSE
      [] x.t = "str" -> x.v # <<>>
      [] x.t = "int" -> x.v # 0
      [] x.t = "list" -> x.v # <<>>
      [] x.t = "dict" -> DOMAIN x.v # {}

\* len(x) of a list or a dict
PyLen(x) == IF x.t = "dict" THEN Cardinality(DOMAIN x.v) ELSE Len(x.v)

\* d.get(key, default)
Get(d, key, default) == IF key \in DOMAIN d.v THEN d.v[key] ELSE default

\* s[:n]
Take(s, n) == SubSeq(s, 1, IF Len(s) < n THEN Len(s) ELSE n)

s_digits == <<"0", "1", "2", "3", "4", "5", "6", "7", "8", "9">>

RECURSIVE Dec(_)
\* str(n) of a non-negative int
Dec(n) == IF n < 10 THEN <<s_digits[n + 1]>>
          ELSE Dec(n \div 10) \o <<s_digits[(n % 10) + 1]>>

s_None == <<"N", "o", "n", "e">>

\* the text an f-string puts for {x}
Format(x) ==
    CASE x.t = "str" -> x.v
      [] x.t = "None" -> s_None
      [] x.t = "int" -> IF x.v < 0 THEN <<"-">> \o Dec(0 - x.v) ELSE Dec(x.v)

s_upper == <<"A", "B", "C", "D", "E", "F", "G", "H", "I", "J", "K", "L", "M",
             "N", "O", "P", "Q", "R", "S", "T", "U", "V", "W", "X", "Y", "Z">>
s_lower == <<"a", "b", "c", "d", "e", "f", "g", "h", "i", "j", "k", "l", "m",
             "n", "o", "p", "q", "r", "s", "t", "u", "v", "w", "x", "y", "z">>

LowerChar(c) ==
    IF \E i \in 1..Len(s_upper) : s_upper[i] = c
    THEN s_lower[CHOOSE i \in 1..Len(s_upper) : s_upper[i] = c]
    ELSE c

\* str.lower()
lower(s) == [i \in 1..Len(s) |-> LowerChar(s[i])]

IsSpace(c) == c \in {" ", "\t", "\n", "\r"}

\* str.strip()
strip(s) ==
    LET keep == {i \in 1..Len(s) : ~IsSpace(s[i])}
    IN IF keep = {} THEN <<>>
       ELSE SubSeq(s, CHOOSE i \in keep : \A j \in keep : i <= j,
                      CHOOSE i \in keep : \A j \in keep : j <= i)

\* sub in s
Contains(sub, s) ==
    \E i \in 1..(Len(s) - Len(sub) + 1) : SubSeq(s, i, i + Len(sub) - 1) = sub

\* ----------------------------------------------------------------- literals

s_quit == <<"q", "u", "i", "t">>
s_exit == <<"e", "x", "i", "t">>
s_q == <<"q">>
s_history == <<"h", "i", "s", "t", "o", "r", "y">>
k_competitor == <<"c", "o", "m", "p", "e", "t", "i", "t", "o", "r">>
k_market == <<"m", "a", "r", "k", "e", "t">>
k_trend == <<"t", "r", "e", "n", "d">>
k_startup == <<"s", "t", "a", "r", "t", "u", "p">>
k_price == <<"p", "r", "i", "c", "e">>
k_customer == <<"c", "u", "s", "t", "o", "m", "e", "r">>
k_invest == <<"i", "n", "v", "e", "s", "t">>
k_fund == <<"f", "u", "n", "d">>
s_ellipsis == <<".", ".", ".">>
s_reddit_r == <<"r", "/">>
s_bar == <<" ", "|", " ">>
s_upvotes == <<" ", "u", "p", "v", "o", "t", "e", "s", " ", "|", " ">>
s_comments == <<" ", "c", "o", "m", "m", "e", "n", "t", "s">>
s_indent == <<"\n", " ", " ", " ", " ", " ", " ">>
s_reddit_host == <<"h", "t", "t", "p", "s", ":", "/", "/", "w", "w", "w", ".",
                   "r", "e", "d", "d", "i", "t", ".", "c", "o", "m">>
s_no_title == <<"N", "o", " ", "t", "i", "t", "l", "e">>
s_unknown == <<"u", "n", "k", "n", "o", "w", "n">>
s_Unknown == <<"U", "n", "k", "n", "o", "w", "n">>
s_no_description == <<"N", "o", " ", "d", "e", "s", "c", "r", "i", "p", "t",
                      "i", "o", "n", " ", "a", "v", "a", "i", "l", "a", "b",
                      "l", "e", ".">>
s_ddg_result == <<"D", "u", "c", "k", "D", "u", "c", "k", "G", "o", " ", "R",
                  "e", "s", "u", "l", "t">>

\* ------------------------------------------------------------------- memory

\* ResearchMemory.__init__
NewMemory == [history |-> <<>>, all_results |-> <<>>]

\* add_round assigning the history instead of appending to it
add_round_assign(mem, q, cat, results, an) ==
    [history |-> <<[question |-> q,
                    category |-> cat,
                    result_count |-> Len(results),
                    analysis |-> an]>>,
     all_results |-> mem.all_results \o results]

\* add_round counting the results after extending all_results
add_round_total(mem, q, cat, results, an) ==
    [history |-> Append(mem.history,
                        [question |-> q,
                         category |-> cat,
                         result_count |-> Len(mem.all_results \o results),
                         analysis |-> an]),
     all_results |-> mem.all_results \o results]

\* ResearchMemory.add_round: the memory after the call
add_round(mem, q, cat, results, an) ==
    [history |-> Append(mem.history,
                        [question |-> q,
                         category |-> cat,
                         result_count |-> Len(results),
                         analysis |-> an]),
     all_results |-> mem.all_results \o results]

\* ResearchMemory.get_round_count
get_round_count(mem) == Len(mem.history)

\* the block with the whole analysis in place of the snippet
ContextBlock_whole(i, round_data) ==
    <<[k |-> "round", n |-> i],
      [k |-> "question", s |-> round_data.question],
      [k |-> "category", c |-> round_data.category],
      [k |-> "results", n |-> round_data.result_count]>>
    \o (IF Truthy(round_data.analysis)
        THEN <<[k |-> "analysis", s |-> round_data.analysis.v \o s_ellipsis]>>
        ELSE <<>>)

\* The text one round adds to the context: one element per `context +=`.
ContextBlock(i, round_data) ==
    <<[k |-> "round", n |-> i],
      [k |-> "question", s |-> round_data.question],
      [k |-> "category", c |-> round_data.category],
      [k |-> "results", n |-> round_data.result_count]>>
    \o (IF Truthy(round_data.analysis)
        THEN <<[k |-> "analysis",
                s |-> Take(round_data.analysis.v, SnippetLimit) \o s_ellipsis]>>
        ELSE <<>>)

RECURSIVE ContextBlocks(_, _)
ContextBlocks(h, i) ==
    IF i > Len(h) THEN <<>>
    ELSE ContextBlock(i, h[i]) \o ContextBlocks(h, i + 1)

\* ResearchMemory.get_context: the context as the sequence of the pieces
\* appended to it (the empty sequence is the empty string).
get_context(mem) ==
    IF mem.history = <<>> THEN <<>>
    ELSE <<[k |-> "header"]>> \o ContextBlocks(mem.history, 1)

\* --------------------------------------------------------------- UI helpers

\* get_question without the strip
get_question_raw(ln) == IF ln = <<>> THEN NoneV ELSE Str(ln)

\* get_question, given the line input() returned
get_question(ln) ==
    LET q == strip(ln) IN IF q = <<>> THEN NoneV ELSE Str(q)

\* the dictionary of categorize_question, in insertion order
categories ==
    <<[keyword |-> k_competitor, category |-> "Competitor Analysis"],
      [keyword |-> k_market, category |-> "Market Research"],
      [keyword |-> k_trend, category |-> "Trend Analysis"],
      [keyword |-> k_startup, category |-> "Startup Research"],
      [keyword |-> k_price, category |-> "Pricing Research"],
      [keyword |-> k_customer, category |-> "Customer Research"],
      [keyword |-> k_invest, category |-> "Investment Research"],
      [keyword |-> k_fund, category |-> "Funding Research"]>>

categorize_question(q) ==
    LET question_lower == lower(q)
        hits == {i \in 1..Len(categories) :
                    Contains(categories[i].keyword, question_lower)}
    IN IF hits = {} THEN "General Business Research"
       ELSE categories[CHOOSE i \in hits : \A j \in hits : i <= j].category

\* -------------------------------------------------------------- API helpers

\* What an HTTP request can come to: a network error (URLError, timeout,
\* HTTP status), a body that is not UTF-8 JSON, or a JSON value.
NetErr == [k |-> "neterr"]
BadJson == [k |-> "badjson"]
Json(v) == [k |-> "json", v |-> v]

\* fetch_url without its try/except
fetch_url_uncaught(resp) == IF resp.k = "json" THEN Ok(resp.v) ELSE Exc

\* fetch_url: every exception is caught and None returned
fetch_url(resp) == IF resp.k = "json" THEN Ok(resp.v) ELSE Ok(NoneV)

\* the truncation without the ellipsis
Truncate_bare(s) == Take(s, SummaryLimit)

\* the truncation written at lines 196-197, 226 and 326-327
Truncate(s) ==
    IF Len(s) > SummaryLimit THEN Take(s, SummaryLimit) \o s_ellipsis ELSE s

\* ----------------------------------------------------------- search sources

RECURSIVE WikipediaLoop(_, _, _, _)
\* the for-loop of search_wikipedia from its i-th (title, url) pair on;
\* summary_resps[i] is what the i-th summary request comes to
WikipediaLoop(titles, urls, summary_resps, i) ==
    IF i > Len(titles) \/ i > Len(urls) THEN Ok(<<>>)
    ELSE LET fetched == fetch_url(summary_resps[i])
         IN IF fetched.exc THEN Exc
            ELSE LET summary_data == fetched.val
                     rest == WikipediaLoop(titles, urls, summary_resps, i + 1)
                     here ==
                        IF Truthy(summary_data) /\ "extract" \in DOMAIN summary_data.v
                        THEN <<[title |-> titles[i],
                                summary |-> Str(Truncate(summary_data.v.extract.v)),
                                url |-> urls[i],
                                source |-> "Wikipedia"]>>
                        ELSE <<>>
                 IN IF rest.exc THEN Exc ELSE Ok(here \o rest.val)

search_wikipedia(search_resp, summary_resps) ==
    LET fetched == fetch_url(search_resp)
    IN IF fetched.exc THEN Exc
       ELSE LET search_data == fetched.val
            IN IF search_data.t = "None" \/ PyLen(search_data) < 4 THEN Ok(<<>>)
               ELSE WikipediaLoop(search_data.v[2].v, search_data.v[4].v,
                                  summary_resps, 1)

RECURSIVE TopicLoop(_, _)
\* the for-loop of search_duckduckgo over the topics
TopicLoop(topics, i) ==
    IF i > Len(topics) THEN <<>>
    ELSE (IF "Text" \in DOMAIN topics[i].v
          THEN <<[title |-> Str(Take(Get(topics[i], "Text", Str(<<>>)).v, TitleLimit)),
                  summary |-> Get(topics[i], "Text", Str(<<>>)),
                  url |-> Get(topics[i], "FirstURL", Str(<<>>)),
                  source |-> "DuckDuckGo"]>>
          ELSE <<>>)
         \o TopicLoop(topics, i + 1)

search_duckduckgo(resp) ==
    LET fetched == fetch_url(resp)
    IN IF fetched.exc THEN Exc
       ELSE LET data == fetched.val
            IN IF data.t = "None" THEN Ok(<<>>)
               ELSE Ok((IF Truthy(Get(data, "Abstract", NoneV))
                        THEN <<[title |-> Get(data, "Heading", Str(s_ddg_result)),
                                summary |-> Str(Truncate(data.v.Abstract.v)),
                                url |-> Get(data, "AbstractURL", Str(<<>>)),
                                source |-> "DuckDuckGo"]>>
                        ELSE <<>>)
                       \o TopicLoop(Take(Get(data, "RelatedTopics", List(<<>>)).v,
                                         TopicLimit), 1))

RECURSIVE PostLoop(_, _)
\* the for-loop of search_reddit over the posts
PostLoop(posts, i) ==
    IF i > Len(posts) THEN <<>>
    ELSE LET post_data == Get(posts[i], "data", Dict(<<>>))
             title == Get(post_data, "title", Str(s_no_title))
             selftext == Get(post_data, "selftext", Str(<<>>))
             subreddit == Get(post_data, "subreddit", Str(s_unknown))
             permalink == Get(post_data, "permalink", Str(<<>>))
             score == Get(post_data, "score", Num(0))
             num_comments == Get(post_data, "num_comments", Num(0))
             head == s_reddit_r \o Format(subreddit) \o s_bar \o Format(score)
                     \o s_upvotes \o Format(num_comments) \o s_comments
             preview == IF Len(selftext.v) > PreviewLimit
                        THEN Take(selftext.v, PreviewLimit) \o s_ellipsis
                        ELSE selftext.v
             summary == IF Truthy(selftext) THEN head \o s_indent \o preview
                        ELSE head
         IN <<[title |-> title,
               summary |-> Str(summary),
               url |-> Str(s_reddit_host \o Format(permalink)),
               source |-> "Reddit"]>>
            \o PostLoop(posts, i + 1)

\* search_reddit: its own try/except around the request and json.loads
search_reddit(resp) ==
    IF resp.k # "json" THEN Ok(<<>>)
    ELSE LET data == resp.v
             posts == Get(Get(data, "data", Dict(<<>>)), "children", List(<<>>))
         IN Ok(PostLoop(posts.v, 1))

\* os.environ.get(name, default): an entry is None when the variable is unset
environ_get(entry, default) == IF entry.t = "None" THEN default ELSE entry

RECURSIVE ArticleLoop(_, _)
\* the for-loop of search_news over the articles
ArticleLoop(articles, i) ==
    IF i > Len(articles) THEN <<>>
    ELSE LET article == articles[i]
             title == Get(article, "title", Str(s_no_title))
             description == Get(article, "description", Str(s_no_description))
             source_name == Get(Get(article, "source", Dict(<<>>)), "name",
                                Str(s_Unknown))
             article_url == Get(article, "url", Str(<<>>))
             published == Take(Get(article, "publishedAt", Str(<<>>)).v, DateLimit)
             summary == <<"[">> \o Format(source_name) \o <<"]", " ", "(">>
                        \o published \o <<")", " ">> \o Format(description)
         IN <<[title |-> title,
               summary |-> Str(Truncate(summary)),
               url |-> article_url,
               source |-> "NewsAPI"]>>
            \o ArticleLoop(articles, i + 1)

\* search_news; key is the NEWSAPI_KEY entry of os.environ
search_news(key, resp) ==
    LET api_key == environ_get(key, Str(<<>>))
    IN IF ~Truthy(api_key) THEN Ok(<<>>)
       ELSE LET fetched == fetch_url(resp)
            IN IF fetched.exc THEN Exc
               ELSE LET data == fetched.val
                    IN IF data.t = "None" \/ Get(data, "status", NoneV) # Str(<<"o", "k">>)
                       THEN Ok(<<>>)
                       ELSE Ok(ArticleLoop(Take(Get(data, "articles", List(<<>>)).v,
                                                ArticleLimit), 1))

\* -------------------------------------------------------------- AI analysis

\* What a client.messages.create call can come to: it raises (ApiError, or
\* the reply has no text block), or message.content[0].text is a text.  For
\* generate_search_terms the text is given by what json.loads makes of it:
\* BadJson when it raises, Json(value) otherwise.
ApiError == [k |-> "raise"]
Text(s) == [k |-> "text", v |-> s]

\* isinstance(terms, list) and all(isinstance(t, str) for t in terms)
IsListOfStr(terms) ==
    terms.t = "list" /\ \A i \in 1..Len(terms.v) : terms.v[i].t = "str"

\* generate_search_terms without the check at line 375
generate_search_terms_unchecked(q, has_anthropic, key, reply) ==
    IF reply.k = "json" /\ IsListOfStr(reply.v)
    THEN Ok([i \in 1..Len(reply.v.v) |-> reply.v.v[i].v])
    ELSE Ok(<<q>>)

\* generate_search_terms; the list returned is a sequence of strings
generate_search_terms(q, has_anthropic, key, reply) ==
    IF ~has_anthropic \/ ~Truthy(key) THEN Ok(<<q>>)
    ELSE IF reply.k = "json" /\ IsListOfStr(reply.v)
         THEN Ok([i \in 1..Len(reply.v.v) |-> reply.v.v[i].v])
         ELSE Ok(<<q>>)

\* True when analyze_with_ai gets as far as reading the memory (line 441)
ai_available(has_anthropic, key) ==
    has_anthropic /\ Truthy(environ_get(key, Str(<<>>)))

\* analyze_with_ai: the analysis returned (None or the text of the reply)
analyze_with_ai(has_anthropic, key, reply) ==
    IF ~ai_available(has_anthropic, key) THEN Ok(NoneV)
    ELSE IF reply.k = "text" THEN Ok(Str(reply.v))
         ELSE Ok(NoneV)

\* ------------------------------------------------------------ research round

RECURSIVE DedupLoop(_, _, _)
\* lines 613-618 from the i-th result on, seen_urls being the URLs met so far
DedupLoop(results, i, seen_urls) ==
    IF i > Len(results) THEN <<>>
    ELSE IF results[i].url \notin seen_urls
         THEN <<results[i]>> \o DedupLoop(results, i + 1, seen_urls \cup {results[i].url})
         ELSE DedupLoop(results, i + 1, seen_urls)

\* no deduplication
unique_results_all(results) == results

unique_results(results) == DedupLoop(results, 1, {})

\* ------------------------------------------------ what the outside world does

\* The lines input() returns: empty, blank, the quit commands in several
\* spellings, the history command, and two research questions (the first is
\* one letter away from a quit command, the second holds two keywords).
in_empty == <<>>
in_blank == <<" ", " ">>
in_q == <<"q">>
in_Quit == <<" ", "Q", "u", "i", "t", " ">>
in_EXIT == <<"E", "X", "I", "T">>
in_history == <<"H", "i", "s", "t", "o", "r", "y", " ">>
in_quits == <<"q", "u", "i", "t", "s">>
in_fund_market == <<"F", "u", "n", "d", " ", "m", "a", "r", "k", "e", "t", "\t">>

Inputs == {in_empty, in_blank, in_q, in_Quit, in_EXIT, in_history, in_quits,
           in_fund_market}

\* os.environ entries: unset, set to the empty string, set
EnvEntries == {NoneV, Str(<<>>), Str(<<"k">>)}

u1 == Str(<<"u", "1">>)
u2 == Str(<<"u", "2">>)
u3 == Str(<<"u", "3">>)
t_a == <<"a">>
t_b == <<"b">>

\* a text of n characters
Chars(n) == [i \in 1..n |-> "x"]

\* Wikipedia: the opensearch reply [query, titles, descriptions, urls] and
\* the replies to the summary requests
WikiFound == Json(List(<<Str(t_a), List(<<Str(<<"T", "1">>), Str(<<"T", "2">>)>>),
                        List(<<>>), List(<<u1, u2>>)>>))
WikiError == Json(Dict([error |-> Str(<<"e">>)]))
Extract(s) == Json(Dict([extract |-> Str(s)]))
NoExtract == Json(Dict([title |-> Str(<<"T">>)]))

WikiWide ==
    {[search |-> NetErr, summaries |-> <<>>],
     [search |-> BadJson, summaries |-> <<>>],
     [search |-> WikiError, summaries |-> <<>>],
     [search |-> WikiFound, summaries |-> <<Extract(t_a), Extract(t_b)>>],
     [search |-> WikiFound, summaries |-> <<Extract(t_a), NetErr>>],
     [search |-> WikiFound, summaries |-> <<Extract(t_a), BadJson>>],
     [search |-> WikiFound, summaries |-> <<Extract(t_a), NoExtract>>]}

WikiDeep ==
    {[search |-> NetErr, summaries |-> <<>>],
     [search |-> WikiFound, summaries |-> <<Extract(t_a), Extract(t_b)>>]}

\* DuckDuckGo: an abstract whose URL is the first Wikipedia article's, one
\* topic with a text and one group of topics without
DdgFound ==
    Json(Dict([Heading |-> Str(<<"H">>),
               Abstract |-> Str(t_a),
               AbstractURL |-> u1,
               RelatedTopics |->
                   List(<<Dict([Name |-> Str(<<"g">>)]),
                          Dict([Text |-> Str(t_b), FirstURL |-> u3])>>)]))

DdgWide == {NetErr, BadJson, DdgFound}
DdgDeep == {DdgFound}

\* Reddit: one post
RedditFound ==
    Json(Dict([data |->
        Dict([children |->
            List(<<Dict([data |->
                Dict([title |-> Str(<<"P">>),
                      selftext |-> Str(t_a),
                      subreddit |-> Str(<<"s">>),
                      permalink |-> Str(<<"/", "p">>),
                      score |-> Num(12),
                      num_comments |-> Num(0)])])>>)])]))

RedditWide == {NetErr, BadJson, RedditFound}
RedditDeep == {RedditFound}

\* NewsAPI: one article without a description, whose URL is the second
\* Wikipedia article's
NewsFound ==
    Json(Dict([status |-> Str(<<"o", "k">>),
               articles |->
                   List(<<Dict([title |-> Str(<<"N">>),
                                description |-> NoneV,
                                source |-> Dict([name |-> Str(<<"S">>)]),
                                url |-> u2,
                                publishedAt |-> Str(<<"2", "0", "2", "4">>)])>>)]))
NewsRefused == Json(Dict([status |-> Str(<<"e", "r", "r", "o", "r">>)]))

NewsWide == {NetErr, BadJson, NewsRefused, NewsFound}
NewsDeep == {NewsFound}

\* the reply to generate_search_terms
TermsWide ==
    {ApiError, BadJson, Json(Num(3)), Json(Dict([terms |-> List(<<>>)])),
     Json(List(<<Str(t_a), Num(1)>>)), Json(List(<<>>)),
     Json(List(<<Str(t_a), Str(t_b)>>))}
TermsDeep == {BadJson, Json(List(<<Str(t_a), Str(t_b)>>))}

\* the reply to analyze_with_ai
AnalysisWide == {ApiError, Text(<<>>), Text(<<"o", "k">>)}
AnalysisDeep == {ApiError, Text(<<"o", "k">>)}

Wide == [wiki |-> WikiWide, ddg |-> DdgWide, reddit |-> RedditWide,
         news |-> NewsWide, terms |-> TermsWide, analysis |-> AnalysisWide]
Deep == [wiki |-> WikiDeep, ddg |-> DdgDeep, reddit |-> RedditDeep,
         news |-> NewsDeep, terms |-> TermsDeep, analysis |-> AnalysisDeep]

\* ---------------------------------------------------------------- the program

\* the locals of research_round before it has assigned them
locals == <<category, search_terms, term_i, round_results, analysis,
            memory_context, calls>>
environ == <<HAS_ANTHROPIC, ANTHROPIC_API_KEY, NEWSAPI_KEY>>
unit == <<call, ret>>

NoLocals ==
    /\ category' = ""
    /\ search_terms' = <<>>
    /\ term_i' = 0
    /\ round_results' = <<>>
    /\ analysis' = NoneV
    /\ memory_context' = <<>>
    /\ calls' = <<>>

\* main up to the loop: greet_user, memory = ResearchMemory()
Init ==
    /\ pc = "prompt"
    /\ line = <<>>
    /\ question = NoneV
    /\ category = ""
    /\ search_terms = <<>>
    /\ term_i = 0
    /\ round_results = <<>>
    /\ analysis = NoneV
    /\ memory_context = <<>>
    /\ memory = NewMemory
    /\ goodbye = NoneV
    /\ asked = 0
    /\ calls = <<>>
    /\ HAS_ANTHROPIC \in BOOLEAN
    /\ ANTHROPIC_API_KEY \in EnvEntries
    /\ NEWSAPI_KEY \in EnvEntries
    /\ call = NoneV
    /\ ret = NoneV

\* the command without lower()
command_cased(q) == strip(q)

\* command = question.lower().strip()
command(q) == strip(lower(q))

IsQuit(cmd) == cmd \in {s_quit, s_exit, s_q}

\* lines 652-656: an empty question
MainEmpty ==
    /\ pc = "prompt"
    /\ \E ln \in Inputs :
        /\ get_question(ln) = NoneV
        /\ line' = ln
        /\ question' = NoneV
    /\ UNCHANGED <<pc, memory, goodbye, asked, locals, environ, unit>>

\* lines 662-664: a quit command
MainQuit ==
    /\ pc = "prompt"
    /\ \E ln \in Inputs :
        /\ get_question(ln) # NoneV
        /\ IsQuit(command(get_question(ln).v))
        /\ line' = ln
        /\ question' = get_question(ln)
    /\ goodbye' = Num(get_round_count(memory))
    /\ pc' = "done"
    /\ UNCHANGED <<memory, asked, locals, environ, unit>>

\* lines 666-668: the history command; display_history only prints
MainHistory ==
    /\ pc = "prompt"
    /\ \E ln \in Inputs :
        /\ get_question(ln) # NoneV
        /\ ~IsQuit(command(get_question(ln).v))
        /\ command(get_question(ln).v) = s_history
        /\ line' = ln
        /\ question' = get_question(ln)
    /\ UNCHANGED <<pc, memory, goodbye, asked, locals, environ, unit>>

\* line 671 and lines 596-600: research_round is entered
MainResearch(rounds) ==
    /\ pc = "prompt"
    /\ asked < rounds
    /\ \E ln \in Inputs :
        /\ get_question(ln) # NoneV
        /\ ~IsQuit(command(get_question(ln).v))
        /\ command(get_question(ln).v) # s_history
        /\ line' = ln
        /\ question' = get_question(ln)
        /\ category' = categorize_question(get_question(ln).v)
    /\ asked' = asked + 1
    /\ pc' = "terms"
    /\ UNCHANGED <<search_terms, term_i, round_results, analysis,
                   memory_context, calls, memory, goodbye, environ, unit>>

\* an exception nobody catches ends the process
Crash ==
    /\ pc' = "crashed"
    /\ UNCHANGED <<line, question, memory, goodbye, asked, locals, environ, unit>>

\* line 601 and the head of the for-loop at line 605
GenerateTerms(world) ==
    /\ pc = "terms"
    /\ \E reply \in world.terms :
        LET r == generate_search_terms(question.v, HAS_ANTHROPIC,
                                       ANTHROPIC_API_KEY, reply)
        IN IF r.exc THEN Crash
           ELSE /\ search_terms' = r.val
                /\ term_i' = 1
                /\ pc' = IF r.val = <<>> THEN "dedup" ELSE "wikipedia"
                /\ UNCHANGED <<line, question, category, round_results, analysis,
                               memory_context, calls, memory, goodbye, asked,
                               environ, unit>>

\* a search function that failed is called again
Searched_retry(fn, failed, r, next) ==
    IF r.exc THEN Crash
    ELSE /\ round_results' = round_results \o r.val
         /\ calls' = Append(calls, [fn |-> fn, term |-> term_i,
                                    failed |-> failed, n |-> Len(r.val)])
         /\ pc' = IF failed THEN pc ELSE next
         /\ UNCHANGED <<line, question, category, search_terms, analysis,
                        memory_context, memory, goodbye, asked, environ, unit>>

\* one search function has returned to gather_results: its results are
\* appended (lines 350-353, 608) and the call is noted
Searched(fn, failed, r, next) ==
    IF r.exc THEN Crash
    ELSE /\ round_results' = round_results \o r.val
         /\ calls' = Append(calls, [fn |-> fn, term |-> term_i,
                                    failed |-> failed, n |-> Len(r.val)])
         /\ pc' = next
         /\ UNCHANGED <<line, question, category, search_terms, analysis,
                        memory_context, memory, goodbye, asked, environ, unit>>

\* line 350
SearchWikipedia(world) ==
    /\ pc = "wikipedia"
    /\ \E w \in world.wiki :
        /\ Searched("search_wikipedia", w.search.k # "json",
                    search_wikipedia(w.search, w.summaries), "duckduckgo")
        /\ UNCHANGED term_i

\* line 351
SearchDuckDuckGo(world) ==
    /\ pc = "duckduckgo"
    /\ \E resp \in world.ddg :
        /\ Searched("search_duckduckgo", resp.k # "json",
                    search_duckduckgo(resp), "reddit")
        /\ UNCHANGED term_i

\* line 352
SearchReddit(world) ==
    /\ pc = "reddit"
    /\ \E resp \in world.reddit :
        /\ Searched("search_reddit", resp.k # "json", search_reddit(resp), "news")
        /\ UNCHANGED term_i

\* line 353, and the for-loop of research_round goes on or ends
SearchNews(world) ==
    /\ pc = "news"
    /\ \E resp \in world.news :
        LET r == search_news(NEWSAPI_KEY, resp)
            no_key == ~Truthy(environ_get(NEWSAPI_KEY, Str(<<>>)))
        IN /\ Searched("search_news", no_key \/ resp.k # "json", r,
                       IF term_i < Len(search_terms) THEN "wikipedia" ELSE "dedup")
           /\ term_i' = IF r.exc THEN term_i ELSE term_i + 1

\* lines 613-623: deduplication; display_results only prints
Deduplicate ==
    /\ pc = "dedup"
    /\ round_results' = unique_results(round_results)
    /\ pc' = "analyze"
    /\ UNCHANGED <<line, question, category, search_terms, term_i, analysis,
                   memory_context, calls, memory, goodbye, asked, environ, unit>>

\* research_round storing the round before analyze_with_ai reads the context
Analyze_stored_first(world) ==
    /\ pc = "analyze"
    /\ \E reply \in world.analysis :
        LET r == analyze_with_ai(HAS_ANTHROPIC, ANTHROPIC_API_KEY, reply)
        IN IF r.exc THEN Crash
           ELSE /\ analysis' = r.val
                /\ memory_context' =
                       IF ai_available(HAS_ANTHROPIC, ANTHROPIC_API_KEY)
                       THEN get_context(add_round(memory, question.v, category,
                                                  round_results, r.val))
                       ELSE memory_context
                /\ calls' = Append(calls,
                       [fn |-> "analyze_with_ai", term |-> 0,
                        failed |-> ~ai_available(HAS_ANTHROPIC, ANTHROPIC_API_KEY)
                                   \/ reply.k # "text",
                        n |-> 0])
                /\ pc' = "store"
                /\ UNCHANGED <<line, question, category, search_terms, term_i,
                               round_results, memory, goodbye, asked, environ, unit>>

\* lines 629-631: analyze_with_ai; display_analysis only prints
Analyze(world) ==
    /\ pc = "analyze"
    /\ \E reply \in world.analysis :
        LET r == analyze_with_ai(HAS_ANTHROPIC, ANTHROPIC_API_KEY, reply)
        IN IF r.exc THEN Crash
           ELSE /\ analysis' = r.val
                /\ memory_context' =
                       IF ai_available(HAS_ANTHROPIC, ANTHROPIC_API_KEY)
                       THEN get_context(memory) ELSE memory_context
                /\ calls' = Append(calls,
                       [fn |-> "analyze_with_ai", term |-> 0,
                        failed |-> ~ai_available(HAS_ANTHROPIC, ANTHROPIC_API_KEY)
                                   \/ reply.k # "text",
                        n |-> 0])
                /\ pc' = "store"
                /\ UNCHANGED <<line, question, category, search_terms, term_i,
                               round_results, memory, goodbye, asked, environ, unit>>

\* line 634 and lines 673-674: the round is stored, research_round returns
\* and main goes back to the prompt
StoreRound ==
    /\ pc = "store"
    /\ memory' = add_round(memory, question.v, category, round_results, analysis)
    /\ pc' = "prompt"
    /\ NoLocals
    /\ UNCHANGED <<line, question, goodbye, asked, environ, unit>>

RoundStep(world) ==
    \/ GenerateTerms(world)
    \/ SearchWikipedia(world)
    \/ SearchDuckDuckGo(world)
    \/ SearchReddit(world)
    \/ SearchNews(world)
    \/ Deduplicate
    \/ Analyze(world)
    \/ StoreRound

\* A session of up to MaxRounds rounds, the outside world answering from Deep.
Next ==
    \/ MainEmpty
    \/ MainQuit
    \/ MainHistory
    \/ MainResearch(MaxRounds)
    \/ RoundStep(Deep)

Spec == Init /\ [][Next]_vars

\* A session of up to MaxWideRounds rounds, the outside world answering from
\* Wide: every combination of failures.
NextWide ==
    \/ MainEmpty
    \/ MainQuit
    \/ MainHistory
    \/ MainResearch(MaxWideRounds)
    \/ RoundStep(Wide)

SpecWide == Init /\ [][NextWide]_vars

\* Every call of a round returns (requests time out after 10 s), so a round
\* that has started goes on; the user may stay silent for ever.
FairWide == SpecWide /\ WF_vars(RoundStep(Wide))

\* ------------------------------------------------- the functions on their own

\* lengths of the texts handed to the search functions: around each limit
TextLens == {0, 1, PreviewLimit - 1, PreviewLimit, PreviewLimit + 1,
             SummaryLimit - 1, SummaryLimit, SummaryLimit + 1, SummaryLimit + 4}

UnitSummaries == {NetErr, NoExtract} \cup {Extract(Chars(n)) : n \in TextLens}

WikipediaCalls ==
    {[fn |-> "search_wikipedia", search |-> r, summaries |-> <<>>] :
        r \in {NetErr, BadJson, WikiError}}
    \cup {[fn |-> "search_wikipedia", search |-> WikiFound, summaries |-> <<a, b>>] :
            a \in UnitSummaries, b \in {NetErr, Extract(Chars(SummaryLimit + 1))}}

UnitTopics ==
    {<<>>, <<Dict([Name |-> Str(<<"g">>)])>>}
    \cup {<<Dict([Text |-> Str(Chars(n)), FirstURL |-> u3])>> :
            n \in {0, TitleLimit - 1, TitleLimit + 1, SummaryLimit + 1}}

DuckDuckGoCalls ==
    {[fn |-> "search_duckduckgo", resp |-> r] : r \in {NetErr, BadJson}}
    \cup {[fn |-> "search_duckduckgo",
           resp |-> Json(Dict([Heading |-> Str(<<"H">>), Abstract |-> Str(Chars(n)),
                               AbstractURL |-> u1, RelatedTopics |-> List(t)]))] :
            n \in TextLens, t \in UnitTopics}
    \cup {[fn |-> "search_duckduckgo",
           resp |-> Json(Dict([RelatedTopics |-> List(t)]))] : t \in UnitTopics}

UnitPosts ==
    {Dict([data |-> Dict([title |-> Str(<<"P">>)])])}
    \cup {Dict([data |-> Dict([title |-> Str(<<"P">>), selftext |-> Str(Chars(n)),
                               subreddit |-> Str(<<"s">>), permalink |-> Str(<<"/", "p">>),
                               score |-> Num(k), num_comments |-> Num(0)])]) :
            n \in TextLens, k \in {0, 12, 3456}}

RedditCalls ==
    {[fn |-> "search_reddit", resp |-> r] : r \in {NetErr, BadJson}}
    \cup {[fn |-> "search_reddit",
           resp |-> Json(Dict([data |-> Dict([children |-> List(<<a>>)])]))] :
            a \in UnitPosts}

s_date == <<"2", "0", "2", "4", "-", "0", "1", "-", "0", "2", "T", "0", "3">>

UnitArticles ==
    {Dict([title |-> NoneV, url |-> u2])}
    \cup {Dict([title |-> Str(<<"N">>), description |-> d,
                source |-> Dict([name |-> Str(<<"S">>)]), url |-> u2,
                publishedAt |-> Str(s_date)]) :
            d \in {NoneV} \cup {Str(Chars(n)) : n \in TextLens}}

NewsCalls ==
    {[fn |-> "search_news", key |-> k, resp |-> r] :
        k \in EnvEntries, r \in {NetErr, BadJson, NewsRefused}}
    \cup {[fn |-> "search_news", key |-> k,
           resp |-> Json(Dict([status |-> Str(<<"o", "k">>), articles |-> List(<<a>>)]))] :
            k \in EnvEntries, a \in UnitArticles}

TermsCalls ==
    {[fn |-> "generate_search_terms", question |-> q, has_anthropic |-> h,
      key |-> k, reply |-> r] :
        q \in {strip(in_quits), strip(in_fund_market)}, h \in BOOLEAN,
        k \in EnvEntries, r \in TermsWide}

\* the rounds add_round is given: a question, the results of a round and
\* an analysis that is None, empty, short, or around the snippet limit
UnitResults ==
    {<<>>,
     <<[title |-> Str(<<"T", "1">>), summary |-> Str(t_a), url |-> u1,
        source |-> "Wikipedia"],
       [title |-> Str(<<"P">>), summary |-> Str(t_b), url |-> u3,
        source |-> "Reddit"]>>}

UnitAnalyses ==
    {NoneV, Str(<<>>), Str(<<"o", "k">>), Str(Chars(SnippetLimit)),
     Str(Chars(SnippetLimit + 1))}

RECURSIVE Memories(_)
\* the memories that hold n rounds
Memories(n) ==
    IF n = 0 THEN {NewMemory}
    ELSE {add_round(m, q, categorize_question(q), rs, an) :
            m \in Memories(n - 1),
            q \in {strip(in_quits), strip(in_fund_market)},
            rs \in UnitResults, an \in UnitAnalyses}

ContextCalls ==
    {[fn |-> "get_context", memory |-> m] :
        m \in UNION {Memories(n) : n \in 0..MaxHistory}}

UnitCalls == WikipediaCalls \cup DuckDuckGoCalls \cup RedditCalls \cup NewsCalls
             \cup TermsCalls \cup ContextCalls

InitUnit ==
    /\ pc = "call"
    /\ call \in UnitCalls
    /\ ret = NoneV
    /\ line = <<>>
    /\ question = NoneV
    /\ category = ""
    /\ search_terms = <<>>
    /\ term_i = 0
    /\ round_results = <<>>
    /\ analysis = NoneV
    /\ memory_context = <<>>
    /\ memory = NewMemory
    /\ goodbye = NoneV
    /\ asked = 0
    /\ calls = <<>>
    /\ HAS_ANTHROPIC = FALSE
    /\ ANTHROPIC_API_KEY = NoneV
    /\ NEWSAPI_KEY = NoneV

Returned(fn, value) ==
    /\ pc = "call"
    /\ call.fn = fn
    /\ ret' = value
    /\ pc' = "returned"
    /\ UNCHANGED <<call, line, question, memory, goodbye, asked, locals, environ>>

CallSearchWikipedia ==
    /\ call.fn = "search_wikipedia"
    /\ Returned("search_wikipedia", search_wikipedia(call.search, call.summaries))

CallSearchDuckDuckGo ==
    /\ call.fn = "search_duckduckgo"
    /\ Returned("search_duckduckgo", search_duckduckgo(call.resp))

CallSearchReddit ==
    /\ call.fn = "search_reddit"
    /\ Returned("search_reddit", search_reddit(call.resp))

CallSearchNews ==
    /\ call.fn = "search_news"
    /\ Returned("search_news", search_news(call.key, call.resp))

CallGenerateSearchTerms ==
    /\ call.fn = "generate_search_terms"
    /\ Returned("generate_search_terms",
                generate_search_terms(call.question, call.has_anthropic,
                                      call.key, call.reply))

CallGetContext ==
    /\ call.fn = "get_context"
    /\ Returned("get_context", Ok(get_context(call.memory)))

NextUnit ==
    \/ CallSearchWikipedia
    \/ CallSearchDuckDuckGo
    \/ CallSearchReddit
    \/ CallSearchNews
    \/ CallGenerateSearchTerms
    \/ CallGetContext

\* One call of one function on arguments drawn from the sets above.
SpecUnit == InitUnit /\ [][NextUnit]_vars

\* --------------------------------------------------------------- properties

IsPrefix(s, t) == Len(s) <= Len(t) /\ SubSeq(t, 1, Len(s)) = s

Last(s) == s[Len(s)]

DistinctUrls(results) ==
    \A i, j \in 1..Len(results) : results[i].url = results[j].url => i = j

RECURSIVE KeepFirst(_, _)
\* the results, from the i-th on, that no earlier result shares its URL with
KeepFirst(results, i) ==
    IF i > Len(results) THEN <<>>
    ELSE (IF \A j \in 1..(i - 1) : results[j].url # results[i].url
          THEN <<results[i]>> ELSE <<>>)
         \o KeepFirst(results, i + 1)

RECURSIVE Returned_n(_, _)
\* how many results the first i calls of the round returned
Returned_n(log, i) == IF i = 0 THEN 0 ELSE log[i].n + Returned_n(log, i - 1)

\* C1: the session history only grows by appending: at every step the old
\* memory.history is a prefix of the new one, so no stored round is ever
\* changed or removed, whatever the user enters.
C1_HistoryAppendOnly ==
    [][IsPrefix(memory.history, memory'.history)]_vars

\* a second round has been appended to a history that held one
C1_Witness == pc = "prompt" /\ Len(memory.history) = 2

\* C2: failures are never fatal: no step ends the process; a source whose
\* request failed (network, undecodable body, missing NewsAPI key) adds no
\* result; an analysis that failed or was unavailable is None and is stored
\* as None; and a round that has started reaches add_round and the prompt.
C2_NeverFatal ==
    /\ [](pc # "crashed")
    /\ [](\A i \in 1..Len(calls) : calls[i].failed => calls[i].n = 0)
    /\ [](pc = "store" /\ Last(calls).failed => analysis = NoneV)
    /\ [][pc = "store" =>
            /\ pc' = "prompt"
            /\ Len(memory'.history) = Len(memory.history) + 1
            /\ Last(memory'.history).analysis = analysis]_vars
    /\ (pc = "terms") ~> (pc = "prompt" /\ Len(memory.history) = asked)

\* every source of the round failed, and so did the analysis
C2_Witness ==
    /\ pc = "store"
    /\ Len(calls) = 5
    /\ \A i \in 1..5 : calls[i].failed
    /\ round_results = <<>>

\* C3: the list research_round displays, analyzes and stores is the list of
\* everything the sources returned with, for every URL, only the first
\* result carrying it, in the order of the calls; its URLs are pairwise
\* distinct.
C3_DeduplicatedByUrl ==
    [][/\ pc = "dedup" =>
            /\ round_results' = KeepFirst(round_results, 1)
            /\ DistinctUrls(round_results')
       /\ pc = "analyze" => round_results' = round_results
       /\ pc = "store" =>
            /\ DistinctUrls(round_results)
            /\ memory'.all_results = memory.all_results \o round_results]_vars

\* two search terms were searched and the deduplication dropped results
C3_Witness ==
    /\ pc = "analyze"
    /\ Len(search_terms) = 2
    /\ round_results # <<>>
    /\ Len(round_results) < Returned_n(calls, Len(calls))

SearchOrder == <<"search_wikipedia", "search_duckduckgo", "search_reddit",
                 "search_news">>

Sources == {"Wikipedia", "DuckDuckGo", "Reddit", "NewsAPI"}

SourceOf(fn) ==
    CASE fn = "search_wikipedia" -> "Wikipedia"
      [] fn = "search_duckduckgo" -> "DuckDuckGo"
      [] fn = "search_reddit" -> "Reddit"
      [] fn = "search_news" -> "NewsAPI"

\* a search function has returned at unit level
SearchReturned ==
    /\ pc = "returned"
    /\ call.fn \in {"search_wikipedia", "search_duckduckgo", "search_reddit",
                    "search_news"}

\* a text as the summaries carry it: whole up to `limit` characters, else
\* its first `limit` characters and an ellipsis
Shortened(text, limit) ==
    IF Len(text) <= limit THEN text
    ELSE SubSeq(text, 1, limit) \o <<".", ".", ".">>

EndsWith(s, tail) ==
    Len(tail) <= Len(s) /\ SubSeq(s, Len(s) - Len(tail) + 1, Len(s)) = tail

\* C4 as stated: every Result of the four search functions has a summary of
\* at most 300 characters and a source among the four.
C4_Original ==
    SearchReturned =>
        \A i \in 1..Len(ret.val) :
            /\ Len(ret.val[i].summary.v) <= SummaryLimit
            /\ ret.val[i].source \in Sources

\* C4 as amended: every Result carries the source of the function that made
\* it; a Wikipedia, NewsAPI or DuckDuckGo-abstract summary is the source
\* text when that has at most 300 characters and otherwise its first 300
\* characters followed by "..." (303 characters); a DuckDuckGo related-topic
\* summary is the topic text untruncated; a Reddit summary ends, for a post
\* with a body, with the body or its first 200 characters followed by "...".
C4_SummariesShortened ==
    SearchReturned =>
        /\ ~ret.exc
        /\ \A i \in 1..Len(ret.val) :
            /\ ret.val[i].source = SourceOf(call.fn)
            /\ ret.val[i].source \in Sources
        /\ call.fn = "search_wikipedia" =>
            \A i \in 1..Len(ret.val) :
                /\ Len(ret.val[i].summary.v) <= SummaryLimit + 3
                /\ \E j \in 1..Len(call.summaries) :
                    /\ call.summaries[j].k = "json"
                    /\ "extract" \in DOMAIN call.summaries[j].v.v
                    /\ ret.val[i].summary.v =
                         Shortened(call.summaries[j].v.v.extract.v, SummaryLimit)
        /\ call.fn = "search_news" =>
            \A i \in 1..Len(ret.val) :
                LET s == ret.val[i].summary.v
                    d == call.resp.v.v.articles.v[i].v
                IN /\ Len(s) <= SummaryLimit + 3
                   /\ Len(s) > SummaryLimit => EndsWith(s, <<".", ".", ".">>)
                   /\ ("description" \in DOMAIN d /\ d.description.t = "str"
                       /\ Len(s) <= SummaryLimit) => EndsWith(s, d.description.v)
        /\ (call.fn = "search_duckduckgo" /\ call.resp.k = "json") =>
            LET data == call.resp.v.v
                abstract == IF "Abstract" \in DOMAIN data THEN data.Abstract.v ELSE <<>>
                first == IF abstract = <<>> THEN 1 ELSE 2
            IN /\ abstract # <<>> =>
                    ret.val[1].summary.v = Shortened(abstract, SummaryLimit)
               /\ \A i \in first..Len(ret.val) :
                    \E j \in 1..Len(data.RelatedTopics.v) :
                        /\ "Text" \in DOMAIN data.RelatedTopics.v[j].v
                        /\ ret.val[i].summary = data.RelatedTopics.v[j].v.Text
        /\ (call.fn = "search_reddit" /\ call.resp.k = "json") =>
            \A i \in 1..Len(ret.val) :
                LET post == call.resp.v.v.data.v.children.v[i].v.data.v
                IN ("selftext" \in DOMAIN post /\ post.selftext.v # <<>>) =>
                        EndsWith(ret.val[i].summary.v,
                                 Shortened(post.selftext.v, PreviewLimit))

\* search_wikipedia returned a summary of 303 characters
C4_Witness ==
    /\ SearchReturned
    /\ call.fn = "search_wikipedia"
    /\ \E i \in 1..Len(ret.val) : Len(ret.val[i].summary.v) = SummaryLimit + 3

\* C5: no external call is retried: the calls of a round are, for each
\* search term in turn, search_wikipedia, search_duckduckgo, search_reddit
\* and search_news, once each, then analyze_with_ai once; a call that
\* failed is not issued again.
C5_NoRetry ==
    /\ \A i \in 1..Len(calls) :
        IF i <= 4 * Len(search_terms)
        THEN /\ calls[i].fn = SearchOrder[((i - 1) % 4) + 1]
             /\ calls[i].term = ((i - 1) \div 4) + 1
        ELSE /\ i = 4 * Len(search_terms) + 1
             /\ calls[i].fn = "analyze_with_ai"
    /\ pc \in {"dedup", "analyze"} => Len(calls) = 4 * Len(search_terms)
    /\ pc = "store" => Len(calls) = 4 * Len(search_terms) + 1

\* a round over two search terms is about to be stored, a call for the
\* first term having failed
C5_Witness ==
    /\ pc = "store"
    /\ Len(search_terms) = 2
    /\ \E i \in 1..4 : calls[i].failed

\* the input counts as a quit command
QuitInput(ln) == strip(lower(strip(ln))) \in {s_quit, s_exit, s_q}

\* C6: the loop ends exactly on a quit command: at the prompt an input that,
\* stripped and lowercased, is quit, exit or q ends the loop without a
\* round, reporting as many rounds as research questions were entered; any
\* other input leaves the loop running, and nothing but the prompt ends it.
C6_QuitEndsLoop ==
    [][/\ (pc = "prompt" /\ QuitInput(line')) =>
            /\ pc' = "done"
            /\ goodbye' = Num(asked)
            /\ memory' = memory
            /\ asked' = asked
       /\ (pc = "prompt" /\ ~QuitInput(line')) => pc' \in {"prompt", "terms"}
       /\ pc # "prompt" => pc' \notin {"done", "crashed"}
       /\ pc # "done"]_vars

\* the loop has ended on " Quit " after two research questions
C6_Witness ==
    /\ pc = "done"
    /\ line = in_Quit
    /\ goodbye = Num(2)

\* C7: generate_search_terms returns [question] when the AI is unavailable
\* (no anthropic library, or no key: unset or empty), when the LLM call
\* raises, when json.loads of the reply raises and when the reply is not a
\* list of strings; otherwise it returns the list of strings of the reply.
C7_SearchTermsFallback ==
    (pc = "returned" /\ call.fn = "generate_search_terms") =>
        LET unavailable == ~call.has_anthropic \/ call.key \in {NoneV, Str(<<>>)}
            raised == call.reply.k \in {"raise", "badjson"}
            strings == /\ call.reply.k = "json"
                       /\ call.reply.v.t = "list"
                       /\ \A e \in {call.reply.v.v[i] : i \in 1..Len(call.reply.v.v)} :
                            e.t = "str"
        IN /\ ~ret.exc
           /\ IF unavailable \/ raised \/ ~strings
              THEN ret.val = <<call.question>>
              ELSE /\ Len(ret.val) = Len(call.reply.v.v)
                   /\ \A i \in 1..Len(ret.val) : Str(ret.val[i]) = call.reply.v.v[i]

\* the two terms of the LLM's reply were returned
C7_Witness ==
    /\ pc = "returned"
    /\ call.fn = "generate_search_terms"
    /\ ret.val = <<t_a, t_b>>

\* the first n characters of a text
FirstChars(text, n) ==
    [i \in 1..(IF Len(text) < n THEN Len(text) ELSE n) |-> text[i]]

\* the context describes the history h, ctx being the pieces of the context
\* and with_line[i] telling whether round i is to have an analysis line
Describes(ctx, h, with_line) ==
    LET lines_before(i) == Cardinality({j \in 1..(i - 1) : with_line[j]})
        at(i) == 2 + 4 * (i - 1) + lines_before(i)
    IN /\ (ctx = <<>>) <=> (h = <<>>)
       /\ h # <<>> =>
            /\ Len(ctx) = 1 + 4 * Len(h) + lines_before(Len(h) + 1)
            /\ ctx[1].k = "header"
            /\ \A i \in 1..Len(h) :
                /\ ctx[at(i)].k = "round" /\ ctx[at(i)].n = i
                /\ ctx[at(i) + 1].k = "question"
                /\ ctx[at(i) + 1].s = h[i].question
                /\ ctx[at(i) + 2].k = "category"
                /\ ctx[at(i) + 2].c = h[i].category
                /\ ctx[at(i) + 3].k = "results"
                /\ ctx[at(i) + 3].n = h[i].result_count
                /\ with_line[i] =>
                    /\ ctx[at(i) + 4].k = "analysis"
                    /\ ctx[at(i) + 4].s = FirstChars(h[i].analysis.v, SnippetLimit)
                                          \o <<".", ".", ".">>

ContextReturned == pc = "returned" /\ call.fn = "get_context"

\* C8 as stated: the context is empty exactly when no round is stored, and
\* otherwise holds one block per round, in order, numbered from 1, with an
\* analysis line exactly for the rounds whose analysis is present (not
\* None).
C8_Original ==
    ContextReturned =>
        Describes(ret.val, call.memory.history,
                  [i \in 1..Len(call.memory.history) |->
                        call.memory.history[i].analysis # NoneV])

\* C8 as amended: as stated, but the analysis line is there exactly for the
\* rounds whose analysis is a non-empty string: an empty analysis gets no
\* line, like an absent one.
C8_ContextDescribesHistory ==
    ContextReturned =>
        Describes(ret.val, call.memory.history,
                  [i \in 1..Len(call.memory.history) |->
                        /\ call.memory.history[i].analysis # NoneV
                        /\ call.memory.history[i].analysis.v # <<>>])

\* the context of two rounds, the first with an analysis of more than 500
\* characters, the second with none
C8_Witness ==
    /\ ContextReturned
    /\ Len(call.memory.history) = 2
    /\ call.memory.history[1].analysis = Str(Chars(SnippetLimit + 1))
    /\ call.memory.history[2].analysis = NoneV
    /\ Len(ret.val) = 10

EmptyInput(ln) == strip(ln) = <<>>
HistoryInput(ln) == strip(lower(strip(ln))) = s_history

\* C9: only research questions change the memory: an empty input and the
\* history command leave memory.history and memory.all_results as they are;
\* any other input that is not a quit command starts a round, which appends
\* exactly one round whose question is the stripped input; so whenever the
\* program is at the prompt or has ended, get_round_count() is the number
\* of research questions entered.
C9_OnlyQuestionsChangeMemory ==
    [][/\ (pc = "prompt" /\ (EmptyInput(line') \/ HistoryInput(line'))) =>
            /\ memory' = memory
            /\ pc' = "prompt"
            /\ asked' = asked
       /\ (pc = "prompt" /\ ~EmptyInput(line') /\ ~HistoryInput(line')
           /\ ~QuitInput(line')) =>
            /\ pc' = "terms"
            /\ asked' = asked + 1
            /\ memory' = memory
       /\ (pc # "prompt" /\ pc' = "prompt") =>
            /\ memory'.history =
                 Append(memory.history, Last(memory'.history))
            /\ Last(memory'.history).question = strip(line)
       /\ (pc # "prompt" /\ pc' # "prompt") => memory' = memory
       /\ pc' \in {"prompt", "done"} => get_round_count(memory') = asked']_vars

\* after two research questions, the second typed with a trailing tab, the
\* history command has been entered
C9_Witness ==
    /\ pc = "prompt"
    /\ line = in_history
    /\ asked = 2
    /\ Len(memory.history) = 2
    /\ memory.history[2].question = strip(in_fund_market)
    /\ memory.all_results # <<>>

RECURSIVE CountSum(_, _)
\* the sum of result_count over the first i rounds
CountSum(h, i) == IF i = 0 THEN 0 ELSE h[i].result_count + CountSum(h, i - 1)

\* the results stored for round i: those after the results of rounds 1..i-1
RoundSlice(mem, i) ==
    SubSeq(mem.all_results, CountSum(mem.history, i - 1) + 1,
           CountSum(mem.history, i))

\* C10: in every state each stored round's result_count is the number of
\* that round's deduplicated results, and memory.all_results is the
\* concatenation, in round order, of the rounds' deduplicated results, so
\* its length is the sum of the result_counts.
C10_CountsAddUp ==
    [][/\ pc = "store" =>
            /\ round_results = KeepFirst(round_results, 1)
            /\ Last(memory'.history).result_count = Len(round_results)
            /\ memory'.all_results = memory.all_results \o round_results
       /\ Len(memory'.all_results) =
            CountSum(memory'.history, Len(memory'.history))
       /\ \A i \in 1..Len(memory'.history) :
            DistinctUrls(RoundSlice(memory', i))]_vars

\* two rounds are stored that share a URL: nothing is deduplicated across
\* rounds
C10_Witness ==
    /\ Len(memory.history) = 2
    /\ memory.history[1].result_count > 0
    /\ memory.history[2].result_count > 0
    /\ ~DistinctUrls(memory.all_results)


\* analyze_with_ai got past its two early returns: the context was read and
\* put into the prompt
ContextGiven ==
    /\ pc = "store"
    /\ HAS_ANTHROPIC
    /\ ANTHROPIC_API_KEY \notin {NoneV, Str(<<>>)}

\* the rounds of h that get an analysis line
WithLine(h) ==
    [i \in 1..Len(h) |-> h[i].analysis # NoneV /\ h[i].analysis.v # <<>>]

\* the numbers of the rounds the context has a block for
RoundsIn(ctx) == {ctx[j].n : j \in {i \in 1..Len(ctx) : ctx[i].k = "round"}}

\* C11: the context given to the analysis of the n-th round of a session
\* describes exactly the rounds 1..n-1, in order, and never round n: when
\* analyze_with_ai has read the context the memory holds the n-1 earlier
\* rounds and not yet this one, the analysis leaves the memory alone, and the
\* round is stored only afterwards; the context of the first round is empty.
C11_ContextOfEarlierRounds ==
    /\ [](ContextGiven =>
            /\ Len(memory.history) = asked - 1
            /\ Describes(memory_context, memory.history, WithLine(memory.history))
            /\ RoundsIn(memory_context) = 1..(asked - 1)
            /\ asked = 1 => memory_context = <<>>)
    /\ [][pc = "analyze" => memory' = memory]_vars
    /\ [][ContextGiven =>
            /\ Len(memory'.history) = asked
            /\ SubSeq(memory'.history, 1, asked - 1) = memory.history
            /\ Last(memory'.history).question = question.v
            /\ Describes(memory_context, SubSeq(memory'.history, 1, asked - 1),
                         WithLine(memory.history))]_vars

\* the analysis of the second round is given a context with the block of the
\* first round, its analysis line included
C11_Witness ==
    /\ ContextGiven
    /\ asked = 2
    /\ Len(memory_context) = 6
    /\ memory_context[2] = [k |-> "round", n |-> 1]
    /\ memory_context[6].k = "analysis"

====
